---- MODULE Spec2Model ----
(***************************************************************************)
(* Model of the WeChat Work ("enterprise WeChat application") channel of   *)
(* Message-Push-Nest:                                                      *)
(*   - pkg/message/wechat_corp_account.go : the Channel Client, its        *)
(*     process-wide access-token cache and the provider calls;             *)
(*   - the channel dispatcher WeChatCorpAccountChannel.SendUnified.        *)
(*                                                                         *)
(* Go strings are TLA+ strings; fmt.Sprintf and strings.Join are string    *)
(* concatenations.  The Chinese message literals of the source are written *)
(* as ASCII stand-ins (see the Msg... definitions).  A Go error is its     *)
(* message string, and Nil is the nil error (an error with an empty        *)
(* message is not nil).  Time is counted in whole seconds.                 *)
(***************************************************************************)
EXTENDS Integers, Sequences, FiniteSets, TLC

VARIABLES
    m,           \* wechatCorpTokenCache.m : cache key -> cache item
    mu,          \* wechatCorpTokenCache.mu : the RWMutex
    clock,       \* the wall clock read by time.Now()
    ticks,       \* number of clock advances so far
    calls,       \* number of SendUnified calls the sequential caller has started
    pc,          \* per goroutine: position in the code
    op,          \* per goroutine: the top-level operation it runs
    c,           \* per goroutine: the WeChatCorpAccount receiver
    loc,         \* per goroutine: locals of GetAccessToken
    ret,         \* per goroutine: result of GetAccessToken
    in,          \* per goroutine: inputs of SendUnified, until it calls the client
    req,         \* per goroutine: the wechatCorpSendRequest and the method that built it
    out,         \* per goroutine: results (res, errMsg) of SendUnified
    tokenCalls,  \* per goroutine: GETs of the token endpoint in the current call
    postCalls,   \* per goroutine: POSTs of the send endpoint in the current call
    wrote,       \* per goroutine: completed cache writes in the current call
    delivered,   \* per goroutine: the provider answered the POST with errcode 0
    lastWriter,  \* cache key -> goroutine whose cache write completed last
    stored,      \* (CorpID, AgentID, AgentSecret) -> item last stored for these fields
    posted,      \* per goroutine: the response the send endpoint gave to the POST
    client,      \* per goroutine: the http.Client last built by getHTTPClient, and how
    undelivered  \* identity fields whose stored item is of a send whose POST then failed

vars == <<m, mu, clock, ticks, calls, pc, op, c, loc, ret, in, req, out,
          tokenCalls, postCalls, wrote, delivered, lastWriter, stored,
          posted, client, undelivered>>

(***************************************************************************)
(* Bounds of the model.                                                    *)
(***************************************************************************)
MaxTicks == 1        \* times the clock advances in one behaviour
MaxCalls == 2        \* SendUnified calls the sequential caller makes
Threads == {1, 2}    \* goroutines, each running one top-level call
TickSeconds == {30}  \* clock increments, in seconds

(***************************************************************************)
(* Values.                                                                 *)
(***************************************************************************)
Nil == "<nil>"

\* time.Time{} : the zero time, before every clock value
ZeroTime == -1000000

\* expiresAt := ... .Add(-60 * time.Second)
SafetyMargin == 60

MsgParamsMissing == "wechat corp app params missing"
MsgTokenInvalid == "wechat corp access_token response invalid"
ErrTransport == "transport error"
ErrRead == "read error"
ErrJSON == "json: cannot unmarshal"

Account(corp, agent, secret, proxy) ==
    [CorpID |-> corp, AgentID |-> agent, AgentSecret |-> secret, ProxyURL |-> proxy]

NoAccount == Account("", 0, "", "")

\* The receivers used by direct GetAccessToken callers.
Accounts ==
    { Account("ww1", 1, "s1", ""),
      Account("ww1", 1, "s1", "socks5://proxy:1080"),
      Account("ww2", 1, "s1", ""),
      Account("ww1", 1, "", "") }

\* Receivers whose CorpID or AgentSecret contains the separator of the cache key.
SeparatorAccounts ==
    { Account("a|1", 2, "s", ""),
      Account("a", 1, "2|s", "") }

ZeroItem == [token |-> "", expiresAt |-> ZeroTime]

NoResp == [kind |-> "none", ErrCode |-> 0, ErrMsg |-> "", AccessToken |-> "", ExpiresIn |-> 0]

\* The locals of GetAccessToken (key, now, item, ok, token, expiresAt), and for
\* the properties: the entry last stored for the receiver's identity fields
\* when the map was read (seen), the token response received (resp) and the
\* time it was processed (issueTime).
NoLoc == [key |-> "", now |-> 0, ok |-> FALSE, item |-> ZeroItem,
          token |-> "", expiresAt |-> ZeroTime,
          seen |-> [ok |-> FALSE, item |-> ZeroItem], resp |-> NoResp, issueTime |-> 0]

NoRet == [token |-> "", err |-> Nil]

\* What the token endpoint can answer to one GET.
TokenResponses ==
    { [kind |-> k, ErrCode |-> 0, ErrMsg |-> "", AccessToken |-> "", ExpiresIn |-> 0] :
        k \in {"transport_err", "read_err", "bad_json"} }
    \cup
    [ kind : {"json"}, ErrCode : {40013}, ErrMsg : {"", "invalid corpsecret"},
      AccessToken : {"", "tA"}, ExpiresIn : {0, 7200} ]
    \cup
    [ kind : {"json"}, ErrCode : {0}, ErrMsg : {"ok"},
      AccessToken : {"", "tA", "tB"}, ExpiresIn : {-1, 0, 60, 90, 7200} ]

(***************************************************************************)
(* Pure parts of wechat_corp_account.go.                                   *)
(***************************************************************************)
\* Mutant of cacheKey: the proxy URL becomes part of the key.
cacheKey_WithProxy(a) ==
    a.CorpID \o "|" \o ToString(a.AgentID) \o "|" \o a.AgentSecret \o "|" \o a.ProxyURL

\* fmt.Sprintf("%s|%d|%s", c.CorpID, c.AgentID, c.AgentSecret)
cacheKey(a) == a.CorpID \o "|" \o ToString(a.AgentID) \o "|" \o a.AgentSecret

\* if c.CorpID == "" || c.AgentSecret == ""
ParamsMissing(a) == a.CorpID = "" \/ a.AgentSecret = ""

\* Mutant of CacheHit: now.After(item.expiresAt) in place of now.Before(...).
CacheHit_After(ok, item, now) == ok /\ item.token # "" /\ now > item.expiresAt

\* Mutant of CacheHit: !now.After(item.expiresAt) in place of now.Before(...).
CacheHit_NotAfter(ok, item, now) == ok /\ item.token # "" /\ now <= item.expiresAt

\* if ok && item.token != "" && now.Before(item.expiresAt)
CacheHit(ok, item, now) == ok /\ item.token # "" /\ now < item.expiresAt

\* Mutant of ExpiresAt: the safety margin is taken off twice.
ExpiresAt_DoubleMargin(issueTime, expiresIn) == issueTime + expiresIn - SafetyMargin - SafetyMargin

\* Mutant of ExpiresAt: the safety margin is forgotten.
ExpiresAt_NoMargin(issueTime, expiresIn) == issueTime + expiresIn

\* time.Now().Add(time.Duration(res.ExpiresIn) * time.Second).Add(-60 * time.Second)
ExpiresAt(issueTime, expiresIn) == issueTime + expiresIn - SafetyMargin

\* Mutant of refreshAccessToken: an empty access_token is not rejected.
refreshAccessToken_NoTokenCheck(resp, issueTime) ==
    LET fail(e) == [token |-> "", expiresAt |-> ZeroTime, err |-> e] IN
    IF resp.kind = "transport_err" THEN fail(ErrTransport)
    ELSE IF resp.kind = "read_err" THEN fail(ErrRead)
    ELSE IF resp.kind = "bad_json" THEN fail(ErrJSON)
    ELSE IF resp.ErrCode # 0 THEN fail(resp.ErrMsg)
    ELSE IF resp.ExpiresIn <= 0 THEN fail(MsgTokenInvalid)
    ELSE [token |-> resp.AccessToken,
          expiresAt |-> ExpiresAt(issueTime, resp.ExpiresIn),
          err |-> Nil]

\* Mutant of refreshAccessToken: the errcode of the response is not looked at.
refreshAccessToken_NoErrCodeCheck(resp, issueTime) ==
    LET fail(e) == [token |-> "", expiresAt |-> ZeroTime, err |-> e] IN
    IF resp.kind = "transport_err" THEN fail(ErrTransport)
    ELSE IF resp.kind = "read_err" THEN fail(ErrRead)
    ELSE IF resp.kind = "bad_json" THEN fail(ErrJSON)
    ELSE IF resp.AccessToken = "" \/ resp.ExpiresIn <= 0 THEN fail(MsgTokenInvalid)
    ELSE [token |-> resp.AccessToken,
          expiresAt |-> ExpiresAt(issueTime, resp.ExpiresIn),
          err |-> Nil]

\* refreshAccessToken, from the response of client.Get on: (token, expiresAt, err)
refreshAccessToken(resp, issueTime) ==
    LET fail(e) == [token |-> "", expiresAt |-> ZeroTime, err |-> e] IN
    IF resp.kind = "transport_err" THEN fail(ErrTransport)
    ELSE IF resp.kind = "read_err" THEN fail(ErrRead)
    ELSE IF resp.kind = "bad_json" THEN fail(ErrJSON)
    ELSE IF resp.ErrCode # 0 THEN fail(resp.ErrMsg)
    ELSE IF resp.AccessToken = "" \/ resp.ExpiresIn <= 0 THEN fail(MsgTokenInvalid)
    ELSE [token |-> resp.AccessToken,
          expiresAt |-> ExpiresAt(issueTime, resp.ExpiresIn),
          err |-> Nil]

\* Mutant of CanRLock: the map is read without waiting for the writer.
CanRLock_Always(l) == TRUE

\* sync.RWMutex: RLock is granted when no writer holds the lock
CanRLock(l) == l.writer = 0

\* sync.RWMutex: Lock is granted when nobody holds the lock
CanLock(l) == l.writer = 0 /\ l.readers = 0

\* item, ok := wechatCorpTokenCache.m[key]
Lookup(cache, key) ==
    IF key \in DOMAIN cache THEN [ok |-> TRUE, item |-> cache[key]]
    ELSE [ok |-> FALSE, item |-> ZeroItem]

\* cache[key] = item
Put(cache, key, item) ==
    [k \in DOMAIN cache \cup {key} |-> IF k = key THEN item ELSE cache[k]]

\* The two word stores of m[key] = wechatCorpTokenCacheItem{token, expiresAt}
StoreToken(cache, key, token) ==
    Put(cache, key, [token |-> token, expiresAt |-> Lookup(cache, key).item.expiresAt])

\* Mutant of StoreExpiresAt: a later expiry already in the map is kept.
StoreExpiresAt_KeepLater(cache, key, expiresAt) ==
    LET old == Lookup(cache, key).item IN
    Put(cache, key, [token |-> old.token,
                     expiresAt |-> IF old.expiresAt > expiresAt THEN old.expiresAt
                                   ELSE expiresAt])

StoreExpiresAt(cache, key, expiresAt) ==
    Put(cache, key, [token |-> Lookup(cache, key).item.token, expiresAt |-> expiresAt])

\* The identity fields of a receiver.
Identity(a) == <<a.CorpID, a.AgentID, a.AgentSecret>>

(***************************************************************************)
(* getHTTPClient.  Strings are read character by character; the proxy URLs *)
(* of the model are made of letters, digits and ":/@." only (no "#", "?",  *)
(* "%", "[" or control characters), and urlParse follows net/url for such  *)
(* strings.                                                                *)
(***************************************************************************)
\* Timeout: 15 * time.Second
ClientTimeout == 15

UpperLetters == "ABCDEFGHIJKLMNOPQRSTUVWXYZ"
LowerLetters == "abcdefghijklmnopqrstuvwxyz"
Digits == "0123456789"

\* s[i], as a string of one character (i from 1)
CharAt(s, i) == SubSeq(s, i, i)

\* strings.Contains(s, ch) for a single character ch
Contains(s, ch) == \E i \in 1..Len(s) : CharAt(s, i) = ch

\* strings.Index(s, ch) + 1 for a single character ch: 0 when absent
Index(s, ch) ==
    IF Contains(s, ch)
    THEN CHOOSE i \in 1..Len(s) : CharAt(s, i) = ch /\ \A j \in 1..(i - 1) : CharAt(s, j) # ch
    ELSE 0

\* strings.LastIndex(s, ch) + 1 for a single character ch: 0 when absent
LastIndex(s, ch) ==
    IF Contains(s, ch)
    THEN CHOOSE i \in 1..Len(s) :
           CharAt(s, i) = ch /\ \A j \in (i + 1)..Len(s) : CharAt(s, j) # ch
    ELSE 0

\* s[i-1:], the rest of s from its i-th character on
From(s, i) == SubSeq(s, i, Len(s))

\* strings.HasPrefix(s, prefix)
HasPrefix(s, prefix) == Len(s) >= Len(prefix) /\ SubSeq(s, 1, Len(prefix)) = prefix

\* unicode.ToLower of an ASCII character
ToLowerChar(ch) ==
    IF Contains(UpperLetters, ch) THEN CharAt(LowerLetters, Index(UpperLetters, ch)) ELSE ch

\* strings.ToLower(s)
RECURSIVE ToLower(_)
ToLower(s) == IF s = "" THEN "" ELSE ToLowerChar(CharAt(s, 1)) \o ToLower(From(s, 2))

IsLetter(ch) == Contains(UpperLetters, ch) \/ Contains(LowerLetters, ch)

\* net/url getScheme: [scheme, rest, err]
getScheme(rawURL) ==
    LET inScheme(ch) == Contains(Digits, ch) \/ Contains("+-.", ch)
        stops == { i \in 1..Len(rawURL) :
                     ~IsLetter(CharAt(rawURL, i)) /\ ~inScheme(CharAt(rawURL, i)) }
    IN
    IF stops = {} \/ inScheme(CharAt(rawURL, 1))
    THEN [scheme |-> "", rest |-> rawURL, err |-> Nil]
    ELSE LET i == CHOOSE k \in stops : \A j \in stops : k <= j IN
         IF CharAt(rawURL, i) # ":" THEN [scheme |-> "", rest |-> rawURL, err |-> Nil]
         ELSE IF i = 1 THEN [scheme |-> "", rest |-> "", err |-> "missing protocol scheme"]
         ELSE [scheme |-> SubSeq(rawURL, 1, i - 1), rest |-> From(rawURL, i + 1), err |-> Nil]

\* net/url validOptionalPort
validOptionalPort(port) ==
    port = "" \/ (CharAt(port, 1) = ":" /\ \A i \in 2..Len(port) : Contains(Digits, CharAt(port, i)))

\* net/url parseAuthority and parseHost: the host is what follows the last "@"
parseAuthority(authority) ==
    LET host == From(authority, LastIndex(authority, "@") + 1)
        colon == LastIndex(host, ":")
    IN IF colon # 0 /\ ~validOptionalPort(From(host, colon))
       THEN [Host |-> "", err |-> "invalid port after host"]
       ELSE [Host |-> host, err |-> Nil]

\* url.Parse(rawURL): [Scheme, Host, err]
urlParse(rawURL) ==
    LET s == getScheme(rawURL)
        fail(e) == [Scheme |-> "", Host |-> "", err |-> e]
    IN IF s.err # Nil THEN fail(s.err)
       ELSE IF ~HasPrefix(s.rest, "/")
            THEN IF s.scheme # "" THEN [Scheme |-> ToLower(s.scheme), Host |-> "", err |-> Nil]
                 ELSE LET slash == Index(s.rest, "/")
                          segment == IF slash = 0 THEN s.rest ELSE SubSeq(s.rest, 1, slash - 1)
                      IN IF Contains(segment, ":")
                         THEN fail("first path segment in URL cannot contain colon")
                         ELSE [Scheme |-> "", Host |-> "", err |-> Nil]
       ELSE IF HasPrefix(s.rest, "//") /\ (s.scheme # "" \/ ~HasPrefix(s.rest, "///"))
            THEN LET after == From(s.rest, 3)
                     slash == Index(after, "/")
                     a == parseAuthority(IF slash = 0 THEN after
                                         ELSE SubSeq(after, 1, slash - 1))
                 IN IF a.err # Nil THEN fail(a.err)
                    ELSE [Scheme |-> ToLower(s.scheme), Host |-> a.Host, err |-> Nil]
       ELSE [Scheme |-> ToLower(s.scheme), Host |-> "", err |-> Nil]

\* &http.Client{Timeout: 15 * time.Second} with the Transport field set or not
Client(transport) == [Timeout |-> ClientTimeout, Transport |-> transport]

\* No client built yet; dialerErr is the outcome createSOCKS5Dialer was given.
NoClient == [dialerErr |-> FALSE, http |-> [Timeout |-> 0, Transport |-> "none"]]

\* Proxy settings: scheme "://" userinfo host port, the same without a scheme,
\* and none.
ProxyURLs ==
    { scheme \o "://" \o userinfo \o host \o port :
        scheme \in {"socks5", "SOCKS5", "Socks5", "http", "https"},
        userinfo \in {"", "user:pw@"},
        host \in {"proxy", "127.0.0.1"},
        port \in {"", ":1080", ":port"} }
    \cup { host \o port : host \in {"proxy", "127.0.0.1"}, port \in {"", ":8080"} }
    \cup { "" }

\* Mutant of getHTTPClient: the socks5 prefix is compared without strings.ToLower.
getHTTPClient_CaseSensitive(proxyURL, dialerErr) ==
    IF proxyURL = "" THEN Client("direct")
    ELSE IF urlParse(proxyURL).err # Nil THEN Client("direct")
    ELSE IF HasPrefix(proxyURL, "socks5://")
         THEN IF dialerErr THEN Client("direct") ELSE Client("socks5")
    ELSE Client("http_proxy")

\* getHTTPClient for c.ProxyURL; dialerErr: createSOCKS5Dialer returns an error
getHTTPClient(proxyURL, dialerErr) ==
    IF proxyURL = "" THEN Client("direct")
    ELSE IF urlParse(proxyURL).err # Nil THEN Client("direct")
    ELSE IF HasPrefix(ToLower(proxyURL), "socks5://")
         THEN IF dialerErr THEN Client("direct") ELSE Client("socks5")
    ELSE Client("http_proxy")

(***************************************************************************)
(* Values of the dispatcher.                                               *)
(***************************************************************************)
MsgTypeConv == "type conversion failed"
MsgConfigInvalid == "wechat corp app config validation failed"
MsgSendFailed == "send failed: "
MsgUnknownType == "unknown wechat corp app content type: "
MsgToUserEmpty == "wechat corp app receiver must not be empty"
MsgAgentIDInvalid == "wechat corp app AgentID invalid"

FormatTypeMarkdown == "markdown"
FormatTypeText == "text"

\* The auth objects (msgObj) a caller passes to SendUnified; authOk is the
\* outcome of the assertion msgObj.(*WayDetailWeChatCorpAccount).
MsgObjs ==
    [ authOk : {TRUE},
      auth : { Account("ww1", 1, "s1", ""),
               Account("ww1", 0, "s1", ""),
               Account("ww1", 1, "", "") } ]
    \cup { [authOk |-> FALSE, auth |-> NoAccount] }

\* What ValidateDiffIns can return: (errStr, configInterface); configOk is the
\* outcome of the assertion configInterface.(models.InsWeChatCorpAccountConfig).
Validations ==
    [ errStr : {"", "ins config invalid"}, configOk : BOOLEAN, ToAccount : {"", "zhangsan"} ]

\* What FormatContent can return: (contentType, formattedContent, err).
Formats ==
    [ contentType : {FormatTypeMarkdown, FormatTypeText, "html"},
      formatted : {"rendered"}, err : {Nil} ]
    \cup { [contentType |-> "", formatted |-> "", err |-> "unsupported format"] }

\* The fields of the UnifiedMessageContent that SendUnified reads.
Contents ==
    [ atAll : BOOLEAN,
      atUserIds : { <<>>, <<"u1">>, <<"u1", "u2">> },
      Title : {"", "Alert"},
      URL : {"", "http://x"} ]

NoIn == [authOk |-> FALSE, auth |-> NoAccount,
         errStr |-> "", configOk |-> FALSE, ToAccount |-> "",
         contentType |-> "", formatted |-> "", fmtErr |-> Nil,
         atAll |-> FALSE, atUserIds |-> <<>>, Title |-> "", URL |-> ""]

NoReq == [method |-> "none", ToUser |-> "", MsgType |-> "", AgentID |-> 0,
          Title |-> "", Content |-> "", URL |-> ""]

NoOut == [res |-> "", errMsg |-> ""]

NoPosted == [kind |-> "none", body |-> "", ErrCode |-> 0, ErrMsg |-> "", InvalidUser |-> ""]

\* What the send endpoint can answer to one POST; body is the raw response.
SendResponses ==
    { [kind |-> "transport_err", body |-> "", ErrCode |-> 0, ErrMsg |-> "", InvalidUser |-> ""],
      [kind |-> "read_err", body |-> "", ErrCode |-> 0, ErrMsg |-> "", InvalidUser |-> ""],
      [kind |-> "bad_json", body |-> "<html>", ErrCode |-> 0, ErrMsg |-> "", InvalidUser |-> ""],
      [kind |-> "json", body |-> "{errcode:0,errmsg:ok}",
       ErrCode |-> 0, ErrMsg |-> "ok", InvalidUser |-> ""],
      [kind |-> "json", body |-> "{errcode:81013,errmsg:}",
       ErrCode |-> 81013, ErrMsg |-> "", InvalidUser |-> ""],
      [kind |-> "json", body |-> "{errcode:81013,errmsg:invalid user}",
       ErrCode |-> 81013, ErrMsg |-> "invalid user", InvalidUser |-> ""],
      [kind |-> "json", body |-> "{errcode:81013,errmsg:invalid user,invaliduser:u9}",
       ErrCode |-> 81013, ErrMsg |-> "invalid user", InvalidUser |-> "u9"] }

(***************************************************************************)
(* Pure parts of the client's send and of SendUnified.                     *)
(***************************************************************************)
\* Mutant of sendPrecondition: the agent id is not looked at.
sendPrecondition_NoAgentCheck(toUser, agentID) ==
    IF toUser = "" THEN MsgToUserEmpty ELSE Nil

\* The two preconditions of send: nil, or the error it returns.
sendPrecondition(toUser, agentID) ==
    IF toUser = "" THEN MsgToUserEmpty
    ELSE IF agentID <= 0 THEN MsgAgentIDInvalid
    ELSE Nil

\* Mutant of sendResponse: the invaliduser of the response is not reported.
sendResponse_DropInvalidUser(resp) ==
    IF resp.kind = "transport_err" THEN [body |-> "", err |-> ErrTransport]
    ELSE IF resp.kind = "read_err" THEN [body |-> "", err |-> ErrRead]
    ELSE IF resp.kind = "bad_json" THEN [body |-> resp.body, err |-> ErrJSON]
    ELSE IF resp.ErrCode # 0 THEN [body |-> resp.body, err |-> resp.ErrMsg]
    ELSE [body |-> resp.body, err |-> Nil]

\* send, from the response of client.Post on: (body, err)
sendResponse(resp) ==
    IF resp.kind = "transport_err" THEN [body |-> "", err |-> ErrTransport]
    ELSE IF resp.kind = "read_err" THEN [body |-> "", err |-> ErrRead]
    ELSE IF resp.kind = "bad_json" THEN [body |-> resp.body, err |-> ErrJSON]
    ELSE IF resp.ErrCode # 0
         THEN IF resp.InvalidUser # ""
              THEN [body |-> resp.body,
                    err |-> resp.ErrMsg \o " (invaliduser=" \o resp.InvalidUser \o ")"]
              ELSE [body |-> resp.body, err |-> resp.ErrMsg]
    ELSE [body |-> resp.body, err |-> Nil]

\* strings.Join(elems, sep)
RECURSIVE Join(_, _)
Join(elems, sep) ==
    IF Len(elems) = 0 THEN ""
    ELSE IF Len(elems) = 1 THEN elems[1]
    ELSE elems[1] \o sep \o Join(Tail(elems), sep)

\* Mutant of ResolveToUser: the mention list is looked at before IsAtAll.
ResolveToUser_MentionsFirst(toAccount, atAll, atUserIds) ==
    IF Len(atUserIds) > 0 THEN Join(atUserIds, "|")
    ELSE IF atAll THEN "@all"
    ELSE toAccount

\* toUser of SendUnified
ResolveToUser(toAccount, atAll, atUserIds) ==
    IF atAll THEN "@all"
    ELSE IF Len(atUserIds) > 0 THEN Join(atUserIds, "|")
    ELSE toAccount

\* Mutant of SendMethod: || in place of && in the card test.
SendMethod_CardOnEither(contentType, title, url) ==
    IF contentType = FormatTypeMarkdown THEN "SendMarkdown"
    ELSE IF contentType = FormatTypeText
         THEN IF title # "" \/ url # "" THEN "SendTextCard" ELSE "SendText"
    ELSE "none"

\* The client method SendUnified calls for a negotiated content type.
SendMethod(contentType, title, url) ==
    IF contentType = FormatTypeMarkdown THEN "SendMarkdown"
    ELSE IF contentType = FormatTypeText
         THEN IF title # "" /\ url # "" THEN "SendTextCard" ELSE "SendText"
    ELSE "none"

\* SendText, SendMarkdown, SendTextCard: the request each builds
BuildRequest(method, a, toUser, title, content, url) ==
    [method |-> method, ToUser |-> toUser, AgentID |-> a.AgentID,
     MsgType |-> IF method = "SendMarkdown" THEN "markdown"
                 ELSE IF method = "SendTextCard" THEN "textcard" ELSE "text",
     Title |-> IF method = "SendTextCard" THEN title ELSE "",
     Content |-> content,
     URL |-> IF method = "SendTextCard" THEN url ELSE ""]

\* The return of SendUnified when the auth object has another type.
TypeCheckReturn == [res |-> "", errMsg |-> MsgTypeConv]

\* The returns of SendUnified after ValidateDiffIns.
ValidationReturn(errStr) == [res |-> errStr, errMsg |-> ""]

ConfigReturn == [res |-> MsgConfigInvalid, errMsg |-> ""]

\* The return of SendUnified when FormatContent fails.
FormatReturn(err) == [res |-> "", errMsg |-> err]

\* The last lines of SendUnified: (res, errMsg) from (res, sendErr)
WrapResult(res, sendErr) ==
    [res |-> res, errMsg |-> IF sendErr # Nil THEN MsgSendFailed \o sendErr ELSE ""]

(***************************************************************************)
(* Initial state: an empty cache, a free lock, every goroutine idle.       *)
(***************************************************************************)
Init ==
    /\ m = <<>>
    /\ mu = [readers |-> 0, writer |-> 0]
    /\ clock = 0
    /\ ticks = 0
    /\ calls = 0
    /\ pc = [t \in Threads |-> "idle"]
    /\ op = [t \in Threads |-> "none"]
    /\ c = [t \in Threads |-> NoAccount]
    /\ loc = [t \in Threads |-> NoLoc]
    /\ ret = [t \in Threads |-> NoRet]
    /\ in = [t \in Threads |-> NoIn]
    /\ req = [t \in Threads |-> NoReq]
    /\ out = [t \in Threads |-> NoOut]
    /\ tokenCalls = [t \in Threads |-> 0]
    /\ postCalls = [t \in Threads |-> 0]
    /\ wrote = [t \in Threads |-> 0]
    /\ delivered = [t \in Threads |-> FALSE]
    /\ lastWriter = <<>>
    /\ stored = <<>>
    /\ posted = [t \in Threads |-> NoPosted]
    /\ client = [t \in Threads |-> NoClient]
    /\ undelivered = {}

(***************************************************************************)
(* GetAccessToken, one action per atomic step.                             *)
(***************************************************************************)
\* Lines 74-79 for receiver a: the parameter check, key and now.
GetAccessTokenEntry(t, a) ==
    /\ IF ParamsMissing(a)
       THEN /\ pc' = [pc EXCEPT ![t] = "gat_ret"]
            /\ ret' = [ret EXCEPT ![t] = [token |-> "", err |-> MsgParamsMissing]]
            /\ loc' = [loc EXCEPT ![t] = NoLoc]
       ELSE /\ pc' = [pc EXCEPT ![t] = "gat_rlock"]
            /\ ret' = [ret EXCEPT ![t] = NoRet]
            /\ loc' = [loc EXCEPT ![t] = [NoLoc EXCEPT !.key = cacheKey(a), !.now = clock]]

\* A goroutine calls GetAccessToken directly on some receiver.
GetAccessToken(t) ==
    /\ pc[t] = "idle"
    /\ op' = [op EXCEPT ![t] = "GetAccessToken"]
    /\ \E a \in Accounts : c' = [c EXCEPT ![t] = a] /\ GetAccessTokenEntry(t, a)
    /\ UNCHANGED <<m, mu, clock, ticks, calls, in, req, out, tokenCalls, postCalls, wrote,
                   delivered, lastWriter, stored,
                   posted, client, undelivered>>

\* wechatCorpTokenCache.mu.RLock()
RLock(t) ==
    /\ pc[t] = "gat_rlock"
    /\ CanRLock(mu)
    /\ mu' = [mu EXCEPT !.readers = @ + 1]
    /\ pc' = [pc EXCEPT ![t] = "gat_read"]
    /\ UNCHANGED <<m, clock, ticks, calls, op, c, loc, ret, in, req, out, tokenCalls,
                   postCalls, wrote, delivered, lastWriter, stored,
                   posted, client, undelivered>>

\* item, ok := wechatCorpTokenCache.m[key]
Read(t) ==
    /\ pc[t] = "gat_read"
    /\ LET r == Lookup(m, loc[t].key) IN
         loc' = [loc EXCEPT ![t].ok = r.ok, ![t].item = r.item,
                            ![t].seen = Lookup(stored, Identity(c[t]))]
    /\ pc' = [pc EXCEPT ![t] = "gat_runlock"]
    /\ UNCHANGED <<m, mu, clock, ticks, calls, op, c, ret, in, req, out, tokenCalls,
                   postCalls, wrote, delivered, lastWriter, stored,
                   posted, client, undelivered>>

\* wechatCorpTokenCache.mu.RUnlock(), then the hit test of line 85
RUnlock(t) ==
    /\ pc[t] = "gat_runlock"
    /\ mu' = [mu EXCEPT !.readers = @ - 1]
    /\ IF CacheHit(loc[t].ok, loc[t].item, loc[t].now)
       THEN /\ pc' = [pc EXCEPT ![t] = "gat_ret"]
            /\ ret' = [ret EXCEPT ![t] = [token |-> loc[t].item.token, err |-> Nil]]
       ELSE /\ pc' = [pc EXCEPT ![t] = "gat_refresh"]
            /\ ret' = ret
    /\ UNCHANGED <<m, clock, ticks, calls, op, c, loc, in, req, out, tokenCalls,
                   postCalls, wrote, delivered, lastWriter, stored,
                   posted, client, undelivered>>

\* Mutant of Refresh: a failed GET of the token endpoint is tried once more.
Refresh_Retry(t) ==
    /\ pc[t] = "gat_refresh"
    /\ tokenCalls' = [tokenCalls EXCEPT ![t] = @ + 1]
    /\ \E resp \in TokenResponses :
         LET r == refreshAccessToken(resp, clock) IN
           IF r.err # Nil /\ tokenCalls[t] = 0
           THEN /\ pc' = pc
                /\ ret' = ret
                /\ loc' = [loc EXCEPT ![t].resp = resp, ![t].issueTime = clock]
           ELSE IF r.err # Nil
           THEN /\ pc' = [pc EXCEPT ![t] = "gat_ret"]
                /\ ret' = [ret EXCEPT ![t] = [token |-> "", err |-> r.err]]
                /\ loc' = [loc EXCEPT ![t].resp = resp, ![t].issueTime = clock]
           ELSE /\ pc' = [pc EXCEPT ![t] = "gat_lock"]
                /\ ret' = ret
                /\ loc' = [loc EXCEPT ![t].token = r.token, ![t].expiresAt = r.expiresAt,
                                      ![t].resp = resp, ![t].issueTime = clock]
    /\ UNCHANGED <<m, mu, clock, ticks, calls, op, c, in, req, out, postCalls, wrote,
                   delivered, lastWriter, stored, posted, client, undelivered>>

\* token, expiresAt, err := c.refreshAccessToken(): one GET of the token endpoint
Refresh(t) ==
    /\ pc[t] = "gat_refresh"
    /\ tokenCalls' = [tokenCalls EXCEPT ![t] = @ + 1]
    /\ \E resp \in TokenResponses :
         LET r == refreshAccessToken(resp, clock) IN
           IF r.err # Nil
           THEN /\ pc' = [pc EXCEPT ![t] = "gat_ret"]
                /\ ret' = [ret EXCEPT ![t] = [token |-> "", err |-> r.err]]
                /\ loc' = [loc EXCEPT ![t].resp = resp, ![t].issueTime = clock]
           ELSE /\ pc' = [pc EXCEPT ![t] = "gat_lock"]
                /\ ret' = ret
                /\ loc' = [loc EXCEPT ![t].token = r.token, ![t].expiresAt = r.expiresAt,
                                      ![t].resp = resp, ![t].issueTime = clock]
    /\ UNCHANGED <<m, mu, clock, ticks, calls, op, c, in, req, out, postCalls, wrote,
                   delivered, lastWriter, stored, posted, client, undelivered>>

\* wechatCorpTokenCache.mu.Lock()
Lock(t) ==
    /\ pc[t] = "gat_lock"
    /\ CanLock(mu)
    /\ mu' = [mu EXCEPT !.writer = t]
    /\ pc' = [pc EXCEPT ![t] = "gat_write_token"]
    /\ UNCHANGED <<m, clock, ticks, calls, op, c, loc, ret, in, req, out, tokenCalls,
                   postCalls, wrote, delivered, lastWriter, stored,
                   posted, client, undelivered>>

\* wechatCorpTokenCache.m[key] = wechatCorpTokenCacheItem{...}: the map slot is
\* a two-word struct and the store is not atomic; first the token word ...
WriteToken(t) ==
    /\ pc[t] = "gat_write_token"
    /\ m' = StoreToken(m, loc[t].key, loc[t].token)
    /\ pc' = [pc EXCEPT ![t] = "gat_write_expires"]
    /\ UNCHANGED <<mu, clock, ticks, calls, op, c, loc, ret, in, req, out, tokenCalls,
                   postCalls, wrote, delivered, lastWriter, stored,
                   posted, client, undelivered>>

\* ... then the expiresAt word
WriteExpiresAt(t) ==
    /\ pc[t] = "gat_write_expires"
    /\ m' = StoreExpiresAt(m, loc[t].key, loc[t].expiresAt)
    /\ wrote' = [wrote EXCEPT ![t] = @ + 1]
    /\ lastWriter' = Put(lastWriter, loc[t].key, t)
    /\ stored' = Put(stored, Identity(c[t]),
                     [token |-> loc[t].token, expiresAt |-> loc[t].expiresAt])
    /\ pc' = [pc EXCEPT ![t] = "gat_unlock"]
    /\ undelivered' = undelivered \ {Identity(c[t])}
    /\ UNCHANGED <<mu, clock, ticks, calls, op, c, loc, ret, in, req, out, tokenCalls,
                   postCalls, delivered, posted, client>>

\* wechatCorpTokenCache.mu.Unlock(); return token, nil
Unlock(t) ==
    /\ pc[t] = "gat_unlock"
    /\ mu' = [mu EXCEPT !.writer = 0]
    /\ pc' = [pc EXCEPT ![t] = "gat_ret"]
    /\ ret' = [ret EXCEPT ![t] = [token |-> loc[t].token, err |-> Nil]]
    /\ UNCHANGED <<m, clock, ticks, calls, op, c, loc, in, req, out, tokenCalls,
                   postCalls, wrote, delivered, lastWriter, stored,
                   posted, client, undelivered>>

(***************************************************************************)
(* SendUnified, one action per step of the dispatcher, then the client's   *)
(* send around GetAccessToken.                                             *)
(***************************************************************************)
\* auth, ok := msgObj.(*send_way_service.WayDetailWeChatCorpAccount)
TypeCheck(t) ==
    /\ pc[t] = "idle"
    /\ calls < MaxCalls
    /\ calls' = calls + 1
    /\ op' = [op EXCEPT ![t] = "SendUnified"]
    /\ \E o \in MsgObjs :
         /\ in' = [in EXCEPT ![t] = [NoIn EXCEPT !.authOk = o.authOk, !.auth = o.auth]]
         /\ IF ~o.authOk
            THEN /\ pc' = [pc EXCEPT ![t] = "done"]
                 /\ out' = [out EXCEPT ![t] = TypeCheckReturn]
            ELSE /\ pc' = [pc EXCEPT ![t] = "su_validate"]
                 /\ out' = out
    /\ UNCHANGED <<m, mu, clock, ticks, c, loc, ret, req, tokenCalls, postCalls,
                   wrote, delivered, lastWriter, stored,
                   posted, client, undelivered>>

\* errStr, configInterface := insService.ValidateDiffIns(ins), and the config assertion
Validate(t) ==
    /\ pc[t] = "su_validate"
    /\ \E v \in Validations :
         /\ in' = [in EXCEPT ![t].errStr = v.errStr, ![t].configOk = v.configOk,
                             ![t].ToAccount = v.ToAccount]
         /\ IF v.errStr # ""
            THEN /\ pc' = [pc EXCEPT ![t] = "done"]
                 /\ out' = [out EXCEPT ![t] = ValidationReturn(v.errStr)]
            ELSE IF ~v.configOk
            THEN /\ pc' = [pc EXCEPT ![t] = "done"]
                 /\ out' = [out EXCEPT ![t] = ConfigReturn]
            ELSE /\ pc' = [pc EXCEPT ![t] = "su_format"]
                 /\ out' = out
    /\ UNCHANGED <<m, mu, clock, ticks, calls, op, c, loc, ret, req, tokenCalls,
                   postCalls, wrote, delivered, lastWriter, stored,
                   posted, client, undelivered>>

\* Mutant of Format: the error of FormatContent is not looked at.
Format_IgnoreErr(t) ==
    /\ pc[t] = "su_format"
    /\ \E f \in Formats :
         /\ in' = [in EXCEPT ![t].contentType = f.contentType,
                             ![t].formatted = f.formatted, ![t].fmtErr = f.err]
         /\ pc' = [pc EXCEPT ![t] = "su_dispatch"]
         /\ out' = out
    /\ UNCHANGED <<m, mu, clock, ticks, calls, op, c, loc, ret, req, tokenCalls,
                   postCalls, wrote, delivered, lastWriter, stored,
                   posted, client, undelivered>>

\* contentType, formattedContent, err := c.FormatContent(content)
Format(t) ==
    /\ pc[t] = "su_format"
    /\ \E f \in Formats :
         /\ in' = [in EXCEPT ![t].contentType = f.contentType,
                             ![t].formatted = f.formatted, ![t].fmtErr = f.err]
         /\ IF f.err # Nil
            THEN /\ pc' = [pc EXCEPT ![t] = "done"]
                 /\ out' = [out EXCEPT ![t] = FormatReturn(f.err)]
            ELSE /\ pc' = [pc EXCEPT ![t] = "su_dispatch"]
                 /\ out' = out
    /\ UNCHANGED <<m, mu, clock, ticks, calls, op, c, loc, ret, req, tokenCalls,
                   postCalls, wrote, delivered, lastWriter, stored,
                   posted, client, undelivered>>

\* Target resolution, the client value and the choice of the send method.
Dispatch(t) ==
    /\ pc[t] = "su_dispatch"
    /\ \E k \in Contents :
         LET toUser == ResolveToUser(in[t].ToAccount, k.atAll, k.atUserIds)
             method == SendMethod(in[t].contentType, k.Title, k.URL)
         IN
           /\ in' = [in EXCEPT ![t].atAll = k.atAll, ![t].atUserIds = k.atUserIds,
                               ![t].Title = k.Title, ![t].URL = k.URL]
           /\ c' = [c EXCEPT ![t] = in[t].auth]
           /\ IF method = "none"
              THEN /\ pc' = [pc EXCEPT ![t] = "done"]
                   /\ req' = [req EXCEPT ![t] = [NoReq EXCEPT !.ToUser = toUser]]
                   /\ out' = [out EXCEPT ![t] =
                                WrapResult("", MsgUnknownType \o in[t].contentType)]
              ELSE /\ pc' = [pc EXCEPT ![t] = "send"]
                   /\ req' = [req EXCEPT ![t] =
                                BuildRequest(method, in[t].auth, toUser, k.Title,
                                             in[t].formatted, k.URL)]
                   /\ out' = out
    /\ UNCHANGED <<m, mu, clock, ticks, calls, op, loc, ret, tokenCalls, postCalls,
                   wrote, delivered, lastWriter, stored,
                   posted, client, undelivered>>

\* send: the preconditions, then the call of GetAccessToken.  The inputs of
\* SendUnified are not read again and are dropped here.
send(t) ==
    /\ pc[t] = "send"
    /\ in' = [in EXCEPT ![t] = NoIn]
    /\ LET e == sendPrecondition(req[t].ToUser, c[t].AgentID) IN
         IF e # Nil
         THEN /\ pc' = [pc EXCEPT ![t] = "done"]
              /\ out' = [out EXCEPT ![t] = WrapResult("", e)]
              /\ UNCHANGED <<loc, ret>>
         ELSE /\ GetAccessTokenEntry(t, c[t])
              /\ out' = out
    /\ UNCHANGED <<m, mu, clock, ticks, calls, op, c, req, tokenCalls, postCalls,
                   wrote, delivered, lastWriter, stored,
                   posted, client, undelivered>>

\* Mutant of Post: a failed POST takes the entry this send stored out of the cache.
Post_Rollback(t) ==
    /\ pc[t] = "gat_ret"
    /\ op[t] = "SendUnified"
    /\ pc' = [pc EXCEPT ![t] = "done"]
    /\ IF ret[t].err # Nil
       THEN /\ out' = [out EXCEPT ![t] = WrapResult("", ret[t].err)]
            /\ UNCHANGED <<m, postCalls, delivered, posted, undelivered>>
       ELSE \E resp \in SendResponses :
              LET r == sendResponse(resp)
                  ok == resp.kind = "json" /\ resp.ErrCode = 0
              IN
                /\ postCalls' = [postCalls EXCEPT ![t] = @ + 1]
                /\ posted' = [posted EXCEPT ![t] = resp]
                /\ delivered' = [delivered EXCEPT ![t] = ok]
                /\ undelivered' = IF ~ok /\ wrote[t] > 0
                                  THEN undelivered \cup {Identity(c[t])}
                                  ELSE undelivered
                /\ m' = IF ~ok /\ wrote[t] > 0
                        THEN [k \in DOMAIN m \ {loc[t].key} |-> m[k]]
                        ELSE m
                /\ out' = [out EXCEPT ![t] = WrapResult(r.body, r.err)]
    /\ UNCHANGED <<mu, clock, ticks, calls, op, c, loc, ret, in, req, tokenCalls,
                   wrote, lastWriter, stored, client>>

\* send after GetAccessToken returned: the token error, or the one POST and its
\* response; then the last lines of SendUnified.
Post(t) ==
    /\ pc[t] = "gat_ret"
    /\ op[t] = "SendUnified"
    /\ pc' = [pc EXCEPT ![t] = "done"]
    /\ IF ret[t].err # Nil
       THEN /\ out' = [out EXCEPT ![t] = WrapResult("", ret[t].err)]
            /\ UNCHANGED <<postCalls, delivered, posted, undelivered>>
       ELSE \E resp \in SendResponses :
              LET r == sendResponse(resp)
                  ok == resp.kind = "json" /\ resp.ErrCode = 0
              IN
                /\ postCalls' = [postCalls EXCEPT ![t] = @ + 1]
                /\ posted' = [posted EXCEPT ![t] = resp]
                /\ delivered' = [delivered EXCEPT ![t] = ok]
                /\ undelivered' = IF ~ok /\ wrote[t] > 0
                                  THEN undelivered \cup {Identity(c[t])}
                                  ELSE undelivered
                /\ out' = [out EXCEPT ![t] = WrapResult(r.body, r.err)]
    /\ UNCHANGED <<m, mu, clock, ticks, calls, op, c, loc, ret, in, req, tokenCalls,
                   wrote, lastWriter, stored, client>>

\* SendUnified has returned to the task executor, which may call again.
Finish(t) ==
    /\ pc[t] = "done"
    /\ pc' = [pc EXCEPT ![t] = "idle"]
    /\ op' = [op EXCEPT ![t] = "none"]
    /\ c' = [c EXCEPT ![t] = NoAccount]
    /\ loc' = [loc EXCEPT ![t] = NoLoc]
    /\ ret' = [ret EXCEPT ![t] = NoRet]
    /\ in' = [in EXCEPT ![t] = NoIn]
    /\ req' = [req EXCEPT ![t] = NoReq]
    /\ out' = [out EXCEPT ![t] = NoOut]
    /\ tokenCalls' = [tokenCalls EXCEPT ![t] = 0]
    /\ postCalls' = [postCalls EXCEPT ![t] = 0]
    /\ wrote' = [wrote EXCEPT ![t] = 0]
    /\ delivered' = [delivered EXCEPT ![t] = FALSE]
    /\ posted' = [posted EXCEPT ![t] = NoPosted]
    /\ UNCHANGED <<m, mu, clock, ticks, calls, lastWriter, stored, client, undelivered>>

\* Time passes.
Tick ==
    /\ ticks < MaxTicks
    /\ ticks' = ticks + 1
    /\ \E d \in TickSeconds : clock' = clock + d
    /\ UNCHANGED <<m, mu, calls, pc, op, c, loc, ret, in, req, out, tokenCalls,
                   postCalls, wrote, delivered, lastWriter, stored,
                   posted, client, undelivered>>

Next ==
    \/ \E t \in Threads : GetAccessToken(t)
    \/ \E t \in Threads : RLock(t)
    \/ \E t \in Threads : Read(t)
    \/ \E t \in Threads : RUnlock(t)
    \/ \E t \in Threads : Refresh(t)
    \/ \E t \in Threads : Lock(t)
    \/ \E t \in Threads : WriteToken(t)
    \/ \E t \in Threads : WriteExpiresAt(t)
    \/ \E t \in Threads : Unlock(t)
    \/ Tick

\* Concurrent goroutines, each calling GetAccessToken once.
Spec == Init /\ [][Next]_vars

\* The goroutine of the sequential task executor.
Sender == CHOOSE t \in Threads : \A u \in Threads : t <= u

SendNext ==
    \/ TypeCheck(Sender)
    \/ Validate(Sender)
    \/ Format(Sender)
    \/ Dispatch(Sender)
    \/ send(Sender)
    \/ RLock(Sender)
    \/ Read(Sender)
    \/ RUnlock(Sender)
    \/ Refresh(Sender)
    \/ Lock(Sender)
    \/ WriteToken(Sender)
    \/ WriteExpiresAt(Sender)
    \/ Unlock(Sender)
    \/ Post(Sender)
    \/ Finish(Sender)
    \/ Tick

\* One caller running SendUnified again and again.
SendSpec == Init /\ [][SendNext]_vars

\* A goroutine calls GetAccessToken on a receiver whose fields contain "|".
GetAccessTokenSeparator(t) ==
    /\ pc[t] = "idle"
    /\ op' = [op EXCEPT ![t] = "GetAccessToken"]
    /\ \E a \in SeparatorAccounts : c' = [c EXCEPT ![t] = a] /\ GetAccessTokenEntry(t, a)
    /\ UNCHANGED <<m, mu, clock, ticks, calls, in, req, out, tokenCalls, postCalls, wrote,
                   delivered, lastWriter, stored,
                   posted, client, undelivered>>

KeyNext ==
    \/ \E t \in Threads : GetAccessTokenSeparator(t)
    \/ \E t \in Threads : RLock(t)
    \/ \E t \in Threads : Read(t)
    \/ \E t \in Threads : RUnlock(t)
    \/ \E t \in Threads : Refresh(t)
    \/ \E t \in Threads : Lock(t)
    \/ \E t \in Threads : WriteToken(t)
    \/ \E t \in Threads : WriteExpiresAt(t)
    \/ \E t \in Threads : Unlock(t)
    \/ Tick

\* Concurrent goroutines calling GetAccessToken for receivers whose identity
\* fields contain the separator.
KeySpec == Init /\ [][KeyNext]_vars

(***************************************************************************)
(* getHTTPClient on its own: a receiver with some proxy setting, then the  *)
(* client built for it.                                                    *)
(***************************************************************************)
\* A WeChatCorpAccount value with some ProxyURL is about to build its client.
NewClient(t) ==
    /\ pc[t] = "idle"
    /\ \E proxy \in ProxyURLs : c' = [c EXCEPT ![t] = Account("ww1", 1, "s1", proxy)]
    /\ op' = [op EXCEPT ![t] = "getHTTPClient"]
    /\ pc' = [pc EXCEPT ![t] = "ghc_build"]
    /\ UNCHANGED <<m, mu, clock, ticks, calls, loc, ret, in, req, out, tokenCalls,
                   postCalls, wrote, delivered, lastWriter, stored,
                   posted, client, undelivered>>

\* client := c.getHTTPClient()
BuildClient(t) ==
    /\ pc[t] = "ghc_build"
    /\ \E dialerErr \in BOOLEAN :
         client' = [client EXCEPT ![t] =
                      [dialerErr |-> dialerErr,
                       http |-> getHTTPClient(c[t].ProxyURL, dialerErr)]]
    /\ pc' = [pc EXCEPT ![t] = "ghc_ret"]
    /\ UNCHANGED <<m, mu, clock, ticks, calls, op, c, loc, ret, in, req, out, tokenCalls,
                   postCalls, wrote, delivered, lastWriter, stored,
                   posted, undelivered>>

ClientNext ==
    \/ NewClient(Sender)
    \/ BuildClient(Sender)

ClientSpec == Init /\ [][ClientNext]_vars

(***************************************************************************)
(* Properties of SendUnified, checked under SendSpec.                      *)
(***************************************************************************)
\* SendUnified has returned.
Returned(t) == pc[t] = "done" /\ op[t] = "SendUnified"

\* SendUnified returned because ValidateDiffIns gave a non-empty error string.
ValidationFailed(t) == Returned(t) /\ in[t].authOk /\ in[t].errStr # ""

\* C1: whenever ValidateDiffIns returns a non-empty error string, SendUnified
\* ends Failed with that message: the returned errorMessage is non-empty and
\* is the validation error, and no Channel Client send is invoked.
C1_ValidationErrorIsFailed ==
    \A t \in Threads :
        ValidationFailed(t) =>
            /\ out[t].errMsg # ""
            /\ out[t].errMsg = in[t].errStr
            /\ req[t].method = "none"
            /\ tokenCalls[t] = 0
            /\ postCalls[t] = 0

\* C2: for every execution of SendUnified the returned errorMessage is empty
\* if and only if the send was Delivered, i.e. a delivery POST was performed
\* and the provider answered it with error code 0.
C2_EmptyErrorMessageIffDelivered ==
    \A t \in Threads :
        Returned(t) => (out[t].errMsg = "" <=> (postCalls[t] = 1 /\ delivered[t]))

(***************************************************************************)
(* Properties of GetAccessToken and the token cache, checked under Spec.   *)
(***************************************************************************)
\* GetAccessToken has read the map and released the read lock.
Looked(t) ==
    /\ loc[t].key # ""
    /\ pc[t] \in {"gat_refresh", "gat_lock", "gat_write_token", "gat_write_expires",
                  "gat_unlock", "gat_ret"}

\* What it read is a miss, or an entry that is not later than the time of the call.
Stale(t) == ~loc[t].ok \/ loc[t].now >= loc[t].item.expiresAt

\* C3: GetAccessToken never returns a cached token whose expiresAt is not
\* strictly later than the time of the call; on such a lookup, and on a miss,
\* it makes exactly one call to the token endpoint, and a token it returns
\* without such a call is the one of an entry with now < expiresAt.
C3_ExpiredEntryNeverReturned ==
    \A t \in Threads :
        /\ (Looked(t) /\ Stale(t)) =>
              /\ tokenCalls[t] = IF pc[t] = "gat_refresh" THEN 0 ELSE 1
              /\ (pc[t] = "gat_ret" /\ ret[t].err = Nil) =>
                     ret[t].token = loc[t].resp.AccessToken
        /\ (pc[t] = "gat_ret" /\ ret[t].err = Nil /\ tokenCalls[t] = 0) =>
              /\ loc[t].ok
              /\ loc[t].now < loc[t].item.expiresAt
              /\ ret[t].token = loc[t].item.token

\* C3 witness: an entry that had expired at the time of the call was read and
\* the call made its one refresh.
C3_Witness ==
    \E t \in Threads :
        /\ pc[t] = "gat_ret"
        /\ loc[t].ok
        /\ loc[t].now >= loc[t].item.expiresAt
        /\ tokenCalls[t] = 1
        /\ ret[t].err = Nil

\* C4: for configs with identical CorpID, AgentID and AgentSecret, whatever
\* their ProxyURL: once a GetAccessToken has stored an entry for these fields,
\* a later GetAccessToken by any of them that reads the map while
\* now < expiresAt returns the stored token and calls no token endpoint.
C4_SameIdentitySharesEntry ==
    \A t \in Threads :
        (loc[t].seen.ok /\ loc[t].now < loc[t].seen.item.expiresAt) =>
            /\ pc[t] \in {"gat_runlock", "gat_ret"}
            /\ tokenCalls[t] = 0
            /\ pc[t] = "gat_ret" =>
                   ret[t] = [token |-> loc[t].seen.item.token, err |-> Nil]

\* C4 witness: a config got the token another, independently built config
\* with the same identity fields and another proxy had stored.
C4_Witness ==
    \E t, u \in Threads :
        /\ t # u
        /\ Identity(c[t]) = Identity(c[u])
        /\ c[t].ProxyURL # c[u].ProxyURL
        /\ wrote[u] = 1
        /\ pc[t] = "gat_ret"
        /\ tokenCalls[t] = 0
        /\ ret[t] = [token |-> loc[u].token, err |-> Nil]

\* The token word of key k is stored and its expiresAt word is not yet.
Writing(k) == \E t \in Threads : pc[t] = "gat_write_expires" /\ loc[t].key = k

\* C5: every entry a refresh writes to the cache has
\* expiresAt = issueTime + ttlSeconds - 60, issueTime being the time the
\* provider response was processed and ttlSeconds its expires_in; for
\* ttlSeconds = 7200 the expiry is 7140 seconds after the issue time.
C5_ExpiryIsIssueTimePlusTtlMinus60 ==
    \A k \in DOMAIN m :
        ~Writing(k) =>
            LET w == lastWriter[k] IN
            /\ m[k].expiresAt = loc[w].issueTime + loc[w].resp.ExpiresIn - 60
            /\ loc[w].resp.ExpiresIn = 7200 => m[k].expiresAt - loc[w].issueTime = 7140

\* C5 witness: an entry of a response with expires_in 7200 that was processed
\* later than the call read its clock.
C5_Witness ==
    \E k \in DOMAIN m :
        /\ ~Writing(k)
        /\ loc[lastWriter[k]].resp.ExpiresIn = 7200
        /\ loc[lastWriter[k]].issueTime > loc[lastWriter[k]].now
        /\ m[k].expiresAt = loc[lastWriter[k]].issueTime + 7140

\* A token response GetAccessToken must fail on.
BadTokenResponse(r) ==
    r.kind # "json" \/ r.ErrCode # 0 \/ r.AccessToken = "" \/ r.ExpiresIn <= 0

\* C6: whenever GetAccessToken fails (empty CorpID or AgentSecret, transport
\* error, unparseable response, errcode # 0, empty access_token or
\* expires_in <= 0) it returns an error and writes nothing to the cache; with
\* an empty identity field it fails without a network call.
C6_FailureLeavesCacheAlone ==
    \A t \in Threads :
        /\ (pc[t] = "gat_ret" /\ ret[t].err # Nil) =>
              /\ wrote[t] = 0
              /\ ret[t].token = ""
        /\ (pc[t] # "idle" /\ ParamsMissing(c[t])) =>
              /\ pc[t] = "gat_ret"
              /\ ret[t].err # Nil
              /\ tokenCalls[t] = 0
              /\ wrote[t] = 0
        /\ (loc[t].resp.kind # "none" /\ BadTokenResponse(loc[t].resp)) =>
              /\ pc[t] = "gat_ret"
              /\ ret[t].err # Nil
              /\ wrote[t] = 0

\* C6 witness: the provider answered errcode # 0 together with a token and a
\* positive expires_in; the call failed and the key has no entry.
C6_Witness ==
    \E t \in Threads :
        /\ pc[t] = "gat_ret"
        /\ loc[t].resp.kind = "json"
        /\ loc[t].resp.ErrCode # 0
        /\ loc[t].resp.AccessToken # ""
        /\ loc[t].resp.ExpiresIn > 0
        /\ ret[t].err # Nil
        /\ loc[t].key \notin DOMAIN m

\* The goroutines inside the map: between Lock and Unlock, between RLock and RUnlock.
MapWriters == {t \in Threads : pc[t] \in {"gat_write_token", "gat_write_expires", "gat_unlock"}}

MapReaders == {t \in Threads : pc[t] \in {"gat_read", "gat_runlock"}}

\* C7: the map is read only under the read lock and written only under the
\* write lock: no writer is inside the map while another reader or writer is,
\* and an entry a reader got is the complete (token, expiresAt) pair of one
\* write, never one write's token with another's expiresAt.
C7_ReadersWriterDiscipline ==
    /\ Cardinality(MapWriters) <= 1
    /\ MapWriters # {} => MapReaders = {}
    /\ mu.readers = Cardinality(MapReaders)
    /\ \A t \in MapWriters : mu.writer = t
    /\ MapWriters = {} => mu.writer = 0
    /\ \A t \in Threads :
          loc[t].ok =>
              \E u \in Threads :
                  /\ loc[u].key = loc[t].key
                  /\ pc[u] \in {"gat_unlock", "gat_ret"}
                  /\ wrote[u] = 1
                  /\ loc[t].item = [token |-> loc[u].token, expiresAt |-> loc[u].expiresAt]

\* C7 witness: a writer is between its two word stores while another
\* goroutine waits for the read lock to look up the same key.
C7_Witness ==
    \E t, u \in Threads :
        /\ t # u
        /\ pc[t] = "gat_write_expires"
        /\ pc[u] = "gat_rlock"
        /\ loc[u].key = loc[t].key

\* Both goroutines refreshed the same key and have returned.
BothRefreshed(t, u) ==
    /\ t # u
    /\ pc[t] = "gat_ret" /\ pc[u] = "gat_ret"
    /\ wrote[t] = 1 /\ wrote[u] = 1
    /\ loc[t].key = loc[u].key

\* C8: when two concurrent calls for one key both find the entry missing or
\* expired and both refresh successfully, each returns the token of its own
\* refresh, and once both have finished the entry of the key is the
\* (token, expiresAt) pair of the cache write that happened last.
C8_LastWriterWins ==
    \A t, u \in Threads :
        BothRefreshed(t, u) =>
            /\ ret[t] = [token |-> loc[t].resp.AccessToken, err |-> Nil]
            /\ ret[u] = [token |-> loc[u].resp.AccessToken, err |-> Nil]
            /\ LET w == lastWriter[loc[t].key] IN
                 m[loc[t].key] = [token |-> loc[w].resp.AccessToken,
                                  expiresAt |-> loc[w].expiresAt]

\* C8 witness: both found the key missing, were given different tokens and
\* different expiries, and the write of the shorter-lived token came last.
C8_Witness ==
    \E t, u \in Threads :
        /\ BothRefreshed(t, u)
        /\ ~loc[t].ok /\ ~loc[u].ok
        /\ loc[t].token # loc[u].token
        /\ lastWriter[loc[t].key] = u
        /\ loc[u].expiresAt < loc[t].expiresAt

(***************************************************************************)
(* Properties of the dispatch, checked under SendSpec.                     *)
(***************************************************************************)
\* SendUnified has resolved the target and chosen the send path, and the
\* inputs it read are still at hand.
Dispatched(t) == pc[t] \in {"send", "done"} /\ in[t].contentType # ""

\* C9: target resolution has a strict three-tier precedence: mentionAll gives
\* "@all" whatever the mention list and the default are; else a non-empty
\* mention list gives its IDs in order joined with "|" ([u1,u2] -> "u1|u2");
\* else the target is the config's default recipient ToAccount.
C9_TargetPrecedence ==
    \A t \in Threads :
        Dispatched(t) =>
            LET ids == in[t].atUserIds IN
            /\ in[t].atAll => req[t].ToUser = "@all"
            /\ (~in[t].atAll /\ Len(ids) = 1) => req[t].ToUser = ids[1]
            /\ (~in[t].atAll /\ Len(ids) = 2) => req[t].ToUser = ids[1] \o "|" \o ids[2]
            /\ (~in[t].atAll /\ ids = <<"u1", "u2">>) => req[t].ToUser = "u1|u2"
            /\ (~in[t].atAll /\ Len(ids) = 0) => req[t].ToUser = in[t].ToAccount

\* C9 witness: mentionAll with a non-empty mention list and a non-empty
\* default recipient resolved to "@all".
C9_Witness ==
    \E t \in Threads :
        /\ Dispatched(t)
        /\ in[t].atAll
        /\ in[t].atUserIds = <<"u1", "u2">>
        /\ in[t].ToAccount # ""
        /\ req[t].ToUser = "@all"

\* C10: SendUnified chooses exactly one send path from the negotiated kind:
\* markdown -> SendMarkdown; text with a non-empty title and a non-empty URL ->
\* SendTextCard with the title, the rendered text and the URL; text otherwise
\* -> SendText; any other kind -> Failed with the unknown-content-type message
\* naming the kind, without client call, token fetch or network call.
C10_SendPathByFormat ==
    \A t \in Threads :
        Dispatched(t) =>
            LET kind == in[t].contentType
                card == in[t].Title # "" /\ in[t].URL # ""
            IN
            /\ kind = "markdown" =>
                  /\ pc[t] = "send"
                  /\ req[t].method = "SendMarkdown"
                  /\ req[t].MsgType = "markdown"
                  /\ req[t].Content = in[t].formatted
            /\ (kind = "text" /\ card) =>
                  /\ pc[t] = "send"
                  /\ req[t].method = "SendTextCard"
                  /\ req[t].MsgType = "textcard"
                  /\ req[t].Title = in[t].Title
                  /\ req[t].Content = in[t].formatted
                  /\ req[t].URL = in[t].URL
            /\ (kind = "text" /\ ~card) =>
                  /\ pc[t] = "send"
                  /\ req[t].method = "SendText"
                  /\ req[t].MsgType = "text"
                  /\ req[t].Content = in[t].formatted
            /\ kind \notin {"markdown", "text"} =>
                  /\ pc[t] = "done"
                  /\ req[t].method = "none"
                  /\ out[t] = [res |-> "", errMsg |-> MsgSendFailed \o MsgUnknownType \o kind]
                  /\ tokenCalls[t] = 0
                  /\ postCalls[t] = 0
                  /\ loc[t] = NoLoc

\* C10 witness: text with title "Alert" and URL "http://x" went to the card send.
C10_Witness ==
    \E t \in Threads :
        /\ Dispatched(t)
        /\ in[t].contentType = "text"
        /\ in[t].Title = "Alert"
        /\ in[t].URL = "http://x"
        /\ req[t].method = "SendTextCard"

(***************************************************************************)
(* Provider errors of the delivery POST, checked under SendSpec.           *)
(***************************************************************************)
\* The send endpoint answered the POST with a JSON body whose errcode is not 0.
ProviderRejected(t) ==
    Returned(t) /\ postCalls[t] = 1 /\ posted[t].kind = "json" /\ posted[t].ErrCode # 0

\* C11: when the provider answers the delivery POST with errcode != 0,
\* SendUnified returns the raw response body as responseBody, and its
\* errorMessage is the send-failure prefix followed by the client's error
\* unchanged: the provider's errmsg, followed by the invalid-recipient value
\* when the response names one.
C11_ProviderErrorSurfaced ==
    \A t \in Threads :
      ProviderRejected(t) =>
        /\ out[t].res = posted[t].body
        /\ out[t].errMsg =
             MsgSendFailed \o posted[t].ErrMsg \o
               (IF posted[t].InvalidUser # ""
                THEN " (invaliduser=" \o posted[t].InvalidUser \o ")"
                ELSE "")
        /\ ~delivered[t]

\* The provider rejected a send and named an invalid recipient.
C11_Witness ==
    \E t \in Threads :
      /\ ProviderRejected(t)
      /\ posted[t].InvalidUser = "u9"
      /\ out[t] = [res |-> "{errcode:81013,errmsg:invalid user,invaliduser:u9}",
                   errMsg |-> "send failed: invalid user (invaliduser=u9)"]

(***************************************************************************)
(* The preconditions of the client's send, checked under SendSpec.         *)
(***************************************************************************)
\* SendUnified called a send method of the client with an empty target or
\* with an AgentID that is not positive, and has returned.
PreconditionFailed(t) ==
    Returned(t) /\ req[t].method # "none" /\ (req[t].ToUser = "" \/ c[t].AgentID <= 0)

\* C12: a client send with an empty target or with AgentID <= 0 fails with
\* the validation error of that precondition (the empty target first) before
\* any network call: the call makes no token-endpoint call and no POST, it
\* does not enter GetAccessToken and writes nothing to the cache, whatever
\* the cache holds.
C12_PreconditionsBeforeNetwork ==
    \A t \in Threads :
      PreconditionFailed(t) =>
        /\ out[t] = [res |-> "",
                     errMsg |-> MsgSendFailed \o
                                  (IF req[t].ToUser = "" THEN MsgToUserEmpty
                                   ELSE MsgAgentIDInvalid)]
        /\ tokenCalls[t] = 0
        /\ postCalls[t] = 0
        /\ wrote[t] = 0
        /\ loc[t] = NoLoc
        /\ posted[t] = NoPosted
        /\ ~delivered[t]

\* A dispatch whose resolved target is empty has failed while the cache holds
\* no entry at all.
C12_Witness ==
    \E t \in Threads :
      /\ PreconditionFailed(t)
      /\ req[t].ToUser = ""
      /\ c[t].AgentID > 0
      /\ m = <<>>
      /\ out[t].errMsg = MsgSendFailed \o MsgToUserEmpty

(***************************************************************************)
(* One token call and one POST per send, checked under SendSpec.           *)
(***************************************************************************)
\* The positions of a send inside GetAccessToken, before it has returned.
InGetAccessToken(t) ==
    pc[t] \in {"gat_rlock", "gat_read", "gat_runlock", "gat_refresh", "gat_lock",
               "gat_write_token", "gat_write_expires", "gat_unlock"}

\* The send's call of GetAccessToken ended with an error.
TokenFailed(t) == op[t] = "SendUnified" /\ pc[t] \in {"gat_ret", "done"} /\ ret[t].err # Nil

\* C13: one client send makes at most one token-endpoint call and at most
\* one delivery POST and nothing is tried again; the token call comes first
\* and is made only after a lookup that found no entry or an expired one;
\* when the token cannot be had the POST is never made and SendUnified
\* returns the token error.
C13_NoRetry ==
    \A t \in Threads :
      op[t] = "SendUnified" =>
        /\ tokenCalls[t] <= 1
        /\ postCalls[t] <= 1
        /\ (InGetAccessToken(t) \/ pc[t] = "gat_ret") => postCalls[t] = 0
        /\ postCalls[t] = 1 => (pc[t] = "done" /\ ret[t].err = Nil /\ ret[t].token # "")
        /\ tokenCalls[t] = 1 =>
             /\ loc[t].key # ""
             /\ ~(loc[t].ok /\ loc[t].now < loc[t].item.expiresAt)
        /\ pc[t] = "gat_refresh" => tokenCalls[t] = 0
        /\ TokenFailed(t) =>
             /\ postCalls[t] = 0
             /\ posted[t] = NoPosted
             /\ pc[t] = "done" => out[t] = [res |-> "", errMsg |-> MsgSendFailed \o ret[t].err]

\* The second send of the caller found the cached entry expired, fetched a
\* token again and posted.
C13_Witness ==
    \E t \in Threads :
      /\ Returned(t)
      /\ loc[t].ok
      /\ tokenCalls[t] = 1
      /\ postCalls[t] = 1
      /\ calls = MaxCalls

(***************************************************************************)
(* Transport selection, checked under ClientSpec.                          *)
(***************************************************************************)
\* getHTTPClient has returned a client for the receiver of goroutine t.
Built(t) == pc[t] = "ghc_ret"

\* The text of the proxy URL starts with "socks5://" in some letter case.
SocksPrefixed(u) ==
    Len(u) >= Len("socks5://") /\ ToLower(SubSeq(u, 1, Len("socks5://"))) = "socks5://"

\* C14: getHTTPClient always returns a client, whose timeout is 15 seconds,
\* and its transport is decided by the proxy URL string alone (and, for a
\* socks5 URL, by whether the dialer could be built): no proxy URL, a URL
\* that does not parse, or a socks5 URL whose dialer cannot be built give
\* the direct transport; a parseable URL starting with "socks5://" in any
\* letter case gives the SOCKS5 transport; any other parseable URL gives the
\* forward proxy.
C14_TransportSelection ==
    \A t \in Threads :
      Built(t) =>
        LET u == c[t].ProxyURL
            parses == urlParse(u).err = Nil
            tr == client[t].http.Transport
        IN /\ client[t].http.Timeout = ClientTimeout
           /\ tr \in {"direct", "socks5", "http_proxy"}
           /\ u = "" => tr = "direct"
           /\ (u # "" /\ ~parses) => tr = "direct"
           /\ (u # "" /\ parses /\ SocksPrefixed(u) /\ client[t].dialerErr) => tr = "direct"
           /\ (u # "" /\ parses /\ SocksPrefixed(u) /\ ~client[t].dialerErr) => tr = "socks5"
           /\ (u # "" /\ parses /\ ~SocksPrefixed(u)) => tr = "http_proxy"

\* A client with the SOCKS5 transport was built for a proxy URL whose scheme
\* is written in capitals.
C14_Witness ==
    \E t \in Threads :
      /\ Built(t)
      /\ c[t].ProxyURL = "SOCKS5://user:pw@proxy:1080"
      /\ client[t].http = [Timeout |-> ClientTimeout, Transport |-> "socks5"]

(***************************************************************************)
(* The order of the steps of SendUnified, checked under SendSpec.          *)
(***************************************************************************)
\* The steps that passed, read off the inputs SendUnified has consumed.
TypeCheckPassed(t) == in[t].authOk
ValidationPassed(t) == TypeCheckPassed(t) /\ in[t].errStr = "" /\ in[t].configOk
FormatPassed(t) == ValidationPassed(t) /\ in[t].fmtErr = Nil /\ in[t].contentType # ""

\* SendUnified returned before it resolved a target: at the type check, at
\* validation (error string or config assertion) or at format negotiation.
TypeCheckFailed(t) == Returned(t) /\ req[t] = NoReq /\ ~in[t].authOk
ConfigFailed(t) == Returned(t) /\ in[t].authOk /\ in[t].errStr = "" /\ ~in[t].configOk
FormatFailed(t) == Returned(t) /\ ValidationPassed(t) /\ in[t].fmtErr # Nil

FailedEarly(t) ==
    TypeCheckFailed(t) \/ ValidationFailed(t) \/ ConfigFailed(t) \/ FormatFailed(t)

\* The terminal states of a send.
Delivered(t) == Returned(t) /\ delivered[t]

Failed(t) ==
    \/ FailedEarly(t)
    \/ Returned(t) /\ FormatPassed(t) /\ req[t].method = "none"
    \/ PreconditionFailed(t)
    \/ Returned(t) /\ TokenFailed(t)
    \/ Returned(t) /\ postCalls[t] = 1 /\ ~(posted[t].kind = "json" /\ posted[t].ErrCode = 0)

\* The steps SendUnified can take from where it stands.
StepOfSend(t) ==
    \/ Validate(t) \/ Format(t) \/ Dispatch(t) \/ send(t)
    \/ RLock(t) \/ Read(t) \/ RUnlock(t) \/ Refresh(t)
    \/ Lock(t) \/ WriteToken(t) \/ WriteExpiresAt(t) \/ Unlock(t)
    \/ Post(t)

\* C15: SendUnified runs type check, validation, format negotiation, target
\* resolution and the client send in this order, each only after the ones
\* before it passed; it can always take its next step until it returns, and
\* it returns either Delivered or through exactly one kind of failure; when
\* it fails at the type check (errorMessage "type conversion failed"), at
\* validation or at format negotiation (errorMessage the negotiation error)
\* nothing later has run: no target, no client value, no GetAccessToken, no
\* token call, no POST, no cache write.
C15_StepsInOrder ==
    \A t \in Threads :
      op[t] = "SendUnified" =>
        /\ pc[t] = "su_validate" =>
             (TypeCheckPassed(t) /\ in[t] = [NoIn EXCEPT !.authOk = TRUE, !.auth = in[t].auth])
        /\ pc[t] = "su_format" => (ValidationPassed(t) /\ in[t].contentType = "")
        /\ pc[t] = "su_dispatch" => (FormatPassed(t) /\ req[t] = NoReq)
        /\ pc[t] = "send" => (FormatPassed(t) /\ req[t].method # "none" /\ loc[t] = NoLoc)
        /\ (InGetAccessToken(t) \/ pc[t] = "gat_ret") =>
             (req[t].method # "none" /\ req[t].ToUser # "" /\ c[t].AgentID > 0)
        /\ pc[t] \in {"su_validate", "su_format", "su_dispatch"} =>
             (c[t] = NoAccount /\ loc[t] = NoLoc /\ tokenCalls[t] = 0 /\ postCalls[t] = 0)
        /\ pc[t] # "done" => ENABLED StepOfSend(t)
        /\ Returned(t) => (Delivered(t) \/ Failed(t)) /\ ~(Delivered(t) /\ Failed(t))
        /\ Delivered(t) => (postCalls[t] = 1 /\ out[t] = [res |-> posted[t].body, errMsg |-> ""])
        /\ TypeCheckFailed(t) => out[t] = [res |-> "", errMsg |-> MsgTypeConv]
        /\ FormatFailed(t) => out[t] = [res |-> "", errMsg |-> in[t].fmtErr]
        /\ (ValidationFailed(t) \/ ConfigFailed(t)) =>
             (in[t].contentType = "" /\ in[t].formatted = "" /\ in[t].fmtErr = Nil)
        /\ FailedEarly(t) =>
             /\ req[t] = NoReq
             /\ c[t] = NoAccount
             /\ loc[t] = NoLoc
             /\ tokenCalls[t] = 0
             /\ postCalls[t] = 0
             /\ wrote[t] = 0
             /\ posted[t] = NoPosted
             /\ ~delivered[t]

\* Format negotiation failed in the caller's second call, after a first call
\* had filled the cache.
C15_Witness ==
    \E t \in Threads :
      /\ FormatFailed(t)
      /\ out[t].errMsg = "unsupported format"
      /\ m # <<>>
      /\ calls = MaxCalls

(***************************************************************************)
(* A refreshed token outlives a failed delivery, checked under SendSpec.   *)
(***************************************************************************)
\* The send refreshed the token, stored it, and its POST then failed.
RefreshedThenFailed(t) ==
    Returned(t) /\ wrote[t] = 1 /\ postCalls[t] = 1 /\ ~delivered[t]

\* A later send for identity fields whose stored entry is of a send whose
\* POST failed has looked the entry up before its expiry.
FoundUndelivered(t) ==
    /\ op[t] = "SendUnified"
    /\ Identity(c[t]) \in undelivered
    /\ wrote[t] = 0
    /\ loc[t].key # ""
    /\ (InGetAccessToken(t) \/ pc[t] \in {"gat_ret", "done"})
    /\ pc[t] \notin {"gat_rlock", "gat_read"}
    /\ loc[t].now < stored[Identity(c[t])].expiresAt

\* C16: when a send refreshed the token and its POST then failed (transport
\* error, unreadable or malformed body, or errcode != 0) the refreshed entry
\* is still in the cache when the send returns, and a later send for the
\* same identity fields that looks it up before its expiresAt gets that
\* token without a token-endpoint call.
C16_RefreshSurvivesFailedPost ==
    \A t \in Threads :
      /\ RefreshedThenFailed(t) =>
           /\ loc[t].key \in DOMAIN m
           /\ m[loc[t].key] = [token |-> loc[t].token, expiresAt |-> loc[t].expiresAt]
           /\ Identity(c[t]) \in undelivered
      /\ FoundUndelivered(t) =>
           /\ tokenCalls[t] = 0
           /\ loc[t].ok
           /\ loc[t].item = stored[Identity(c[t])]
           /\ pc[t] \in {"gat_runlock", "gat_ret", "done"}
           /\ pc[t] \in {"gat_ret", "done"} =>
                ret[t] = [token |-> stored[Identity(c[t])].token, err |-> Nil]

\* The caller's second send posted with the token its first send had stored
\* before the provider rejected that first send.
C16_Witness ==
    \E t \in Threads :
      /\ FoundUndelivered(t)
      /\ Returned(t)
      /\ calls = MaxCalls
      /\ tokenCalls[t] = 0
      /\ postCalls[t] = 1
      /\ ret[t].token = stored[Identity(c[t])].token

(***************************************************************************)
(* Isolation of identities in the cache, checked under KeySpec.            *)
(***************************************************************************)
\* C17: GetAccessToken never returns from the cache a token that was
\* obtained by a refresh for other identity fields: the cache key of
\* different (CorpID, AgentID, AgentSecret) is different, also when the
\* strings contain "|", and a token returned without a token call is the one
\* last stored for the receiver's own identity fields.
C17_NoTokenAcrossIdentities ==
    /\ \A t, u \in Threads :
         (loc[t].key # "" /\ loc[u].key # "" /\ Identity(c[t]) # Identity(c[u]))
           => loc[t].key # loc[u].key
    /\ \A t \in Threads :
         (pc[t] = "gat_ret" /\ ret[t].err = Nil /\ tokenCalls[t] = 0)
           => (loc[t].seen.ok /\ ret[t].token = loc[t].seen.item.token)

(***************************************************************************)
(* The cached expiry over time, checked under Spec.                        *)
(***************************************************************************)
\* Goroutine t completes its cache write in this step.
CompletesWrite(t) == pc[t] = "gat_write_expires" /\ pc'[t] = "gat_unlock"

\* The entry goroutine t is replacing is the one its lookup returned, or
\* there was none at its lookup and none has been stored since.
ReplacesWhatItRead(t) ==
    m[loc[t].key].expiresAt = (IF loc[t].ok THEN loc[t].item.expiresAt ELSE ZeroTime)

\* C18 as stated: under any interleaving of calls for one key, no cache write
\* replaces the entry of a key with one whose expiresAt is earlier.
C18_ExpiryNeverDecreases ==
    [][\A k \in DOMAIN m : k \in DOMAIN m' /\ m'[k].expiresAt >= m[k].expiresAt]_vars

\* C18, amended: no step removes a key from the cache, and a cache write
\* whose refresh got expires_in >= 60 and which replaces the very entry its
\* own lookup returned (no other write landed in between) does not make the
\* expiresAt of the key earlier.
C18_ExpiryKeptByOwnReplacement ==
    [][/\ \A k \in DOMAIN m : k \in DOMAIN m'
       /\ \A t \in Threads :
            (CompletesWrite(t) /\ ReplacesWhatItRead(t)
               /\ loc[t].resp.ExpiresIn >= SafetyMargin)
              => m'[loc[t].key].expiresAt >= m[loc[t].key].expiresAt]_vars

\* A goroutine found an expired entry, refreshed with expires_in >= 60 and
\* has replaced that entry with one that expires later.
C18_Witness ==
    \E t \in Threads :
      /\ pc[t] = "gat_unlock"
      /\ loc[t].ok
      /\ loc[t].resp.ExpiresIn >= SafetyMargin
      /\ m[loc[t].key].expiresAt = loc[t].expiresAt
      /\ loc[t].expiresAt > loc[t].item.expiresAt

(***************************************************************************)
(* A lookup right after a refresh, checked under Spec.                     *)
(***************************************************************************)
\* Goroutine u's GetAccessToken succeeded by refreshing and has returned;
\* goroutine t, for the same identity fields, has looked the cache up after
\* that, at a time equal to the one u's refresh was processed at.
LooksUpRightAfter(t, u) ==
    /\ t # u
    /\ pc[u] = "gat_ret" /\ wrote[u] = 1 /\ ret[u].err = Nil
    /\ loc[t].key # "" /\ Identity(c[t]) = Identity(c[u])
    /\ (InGetAccessToken(t) \/ pc[t] = "gat_ret")
    /\ pc[t] \notin {"gat_rlock", "gat_read"}
    /\ loc[t].seen = [ok |-> TRUE,
                      item |-> [token |-> loc[u].token, expiresAt |-> loc[u].expiresAt]]
    /\ loc[t].now = loc[u].issueTime

\* The lookup of t is a hit on the entry u stored.
HitsEntryOf(t, u) ==
    /\ tokenCalls[t] = 0
    /\ pc[t] \in {"gat_runlock", "gat_ret"}
    /\ pc[t] = "gat_ret" => ret[t] = [token |-> loc[u].token, err |-> Nil]

\* C19 as stated: for every positive TTL of the provider, a GetAccessToken
\* for the same identity fields right after one that succeeded by
\* refreshing, with no time elapsed, is a cache hit: same token, no
\* token-endpoint call.
C19_ImmediateHitForEveryTtl ==
    \A t, u \in Threads :
      (LooksUpRightAfter(t, u) /\ loc[u].resp.ExpiresIn > 0) => HitsEntryOf(t, u)

\* C19, amended: the same for every TTL of more than 60 seconds.
C19_ImmediateHitAboveMargin ==
    \A t, u \in Threads :
      (LooksUpRightAfter(t, u) /\ loc[u].resp.ExpiresIn > SafetyMargin) => HitsEntryOf(t, u)

\* A refresh got expires_in 90, and a lookup right after it returned its token.
C19_Witness ==
    \E t, u \in Threads :
      /\ LooksUpRightAfter(t, u)
      /\ loc[u].resp.ExpiresIn > SafetyMargin
      /\ loc[u].expiresAt - loc[u].issueTime < SafetyMargin
      /\ pc[t] = "gat_ret"
      /\ ret[t].token = loc[u].token
      /\ tokenCalls[t] = 0

(***************************************************************************)
(* What the cache holds, checked under Spec.                               *)
(***************************************************************************)
\* A token response that carries a usable token.
GoodTokenResponse(r) ==
    r.kind = "json" /\ r.ErrCode = 0 /\ r.AccessToken # "" /\ r.ExpiresIn > 0

\* Goroutine t has the result of its map lookup.
HasLookedUp(t) ==
    loc[t].key # "" /\ (InGetAccessToken(t) \/ pc[t] = "gat_ret")
      /\ pc[t] \notin {"gat_rlock", "gat_read"}

\* C20: every entry in the cache has a non-empty token, the access_token of
\* a response with errcode 0 and expires_in > 0 that a call for that key
\* received; so an entry found by a lookup never has an empty token and the
\* hit test comes out as "found and now before expiresAt"; and whenever a
\* token is returned from the cache, the validity the provider declared for
\* it, counted from the time its response was processed, has at least 60
\* seconds left at the time the expiry test compares with.
C20_CacheHoldsOnlyGoodTokens ==
    /\ \A k \in DOMAIN m :
         /\ m[k].token # ""
         /\ \E u \in Threads :
              /\ loc[u].key = k
              /\ GoodTokenResponse(loc[u].resp)
              /\ m[k].token = loc[u].resp.AccessToken
    /\ \A t \in Threads :
         HasLookedUp(t) =>
           /\ loc[t].ok => loc[t].item.token # ""
           /\ CacheHit(loc[t].ok, loc[t].item, loc[t].now)
                <=> (loc[t].ok /\ loc[t].now < loc[t].item.expiresAt)
    /\ \A t \in Threads :
         (pc[t] = "gat_ret" /\ ret[t].err = Nil /\ tokenCalls[t] = 0) =>
           \E u \in Threads :
             /\ wrote[u] = 1
             /\ loc[u].key = loc[t].key
             /\ GoodTokenResponse(loc[u].resp)
             /\ loc[t].item = [token |-> loc[u].resp.AccessToken,
                               expiresAt |-> loc[u].expiresAt]
             /\ ret[t].token = loc[u].resp.AccessToken
             /\ loc[u].issueTime + loc[u].resp.ExpiresIn - loc[t].now >= SafetyMargin

\* A token of a short-lived response (less than two margins of validity) was
\* returned from the cache.
C20_Witness ==
    \E t, u \in Threads :
      /\ pc[t] = "gat_ret" /\ ret[t].err = Nil /\ tokenCalls[t] = 0
      /\ wrote[u] = 1
      /\ loc[t].item = [token |-> loc[u].token, expiresAt |-> loc[u].expiresAt]
      /\ loc[u].resp.ExpiresIn < SafetyMargin + SafetyMargin
      /\ ret[t].token = m[loc[t].key].token
====
